---- MODULE Spec2Model ----
(***************************************************************************)
(* Session helper of cosmic-ext-alternative-startup (src/session.rs,       *)
(* src/main.rs): adoption of the inherited control descriptor, the SetEnv  *)
(* handshake, the length-prefixed control channel, the handoff of          *)
(* privileged client descriptors and the two forwarding directions of      *)
(* every relay pair, all driven by one level-triggered event loop.         *)
(*                                                                         *)
(* Bytes are numbers 0..255.  The JSON text of a message is kept at token  *)
(* granularity: one byte stands for the tag part of the object and one for *)
(* the count field, so that a payload is a short byte sequence which the   *)
(* reads of the callback can split.                                        *)
(***************************************************************************)
EXTENDS Integers, Sequences, FiniteSets, TLC

\* ------------------------------------------------------------------ bounds
MaxFrames == 2      \* frames the session manager sends
MaxCount == 2       \* largest count of a NewPrivilegedClient message
MaxPairs == 2       \* client descriptors handed off over the whole run
MaxMsgs == 1        \* messages the relay peers send over the whole run
MaxMsgLen == 2      \* bytes of one relayed message
MaxFds == 1         \* descriptors attached to one relayed message
MaxIntr == 1        \* interrupted writes within one forward pass

\* --------------------------------------------------------------- alphabet
TagNPC == 1         \* {"message":"new_privileged_client",
TagEnv == 2         \* {"message":"set_env","variables":{...}}
TagUnk == 3         \* {"message":"<anything else>"}
CountBase == 48     \* "count":k}  is the byte CountBase + k
BadByte == 255      \* a byte no UTF-8 text contains
NoFd == -1          \* the "no descriptor" value
HandshakeLen == 40  \* length of a short SetEnv text
U16 == 65536

Min(a, b) == IF a < b THEN a ELSE b

Drop(s, n) == SubSeq(s, n + 1, Len(s))

Take(s, n) == SubSeq(s, 1, n)

Zeros(n) == [i \in 1..n |-> 0]

Dirs == {"s2c", "c2s"}
Sides == {"client", "server"}
Pairs == 1..MaxPairs

\* the socket a direction reads, and the one its duplicated handle writes
ReadSide(d) == IF d = "s2c" THEN "server" ELSE "client"

WriteSide(d) == IF d = "s2c" THEN "client" ELSE "server"

ReadHandle(d) == IF d = "s2c" THEN "server_stream" ELSE "client_stream"

WriteHandle(d) == IF d = "s2c" THEN "client_stream_clone" ELSE "server_stream_clone"

Other(d) == IF d = "s2c" THEN "c2s" ELSE "s2c"

\* ------------------------------------------------------------------ codec
\* (bytes.len() as u16).to_ne_bytes() on a little-endian target
ToNeBytes(n) == <<(n % U16) % 256, (n % U16) \div 256>>

\* u16::from_ne_bytes(len)
FromNeBytes(b0, b1) == b0 + 256 * b1

\* std::str::from_utf8: the alphabet holds ASCII bytes and BadByte only
Utf8Valid(buf) == \A i \in 1..Len(buf) : buf[i] < 128

\* serde_json::from_str::<Message>
FromStr(buf) ==
    IF Len(buf) = 2 /\ buf[1] = TagNPC /\ buf[2] >= CountBase /\ buf[2] <= CountBase + 9
    THEN [message |-> "new_privileged_client", count |-> buf[2] - CountBase]
    ELSE IF buf = <<TagEnv>>
    THEN [message |-> "set_env", count |-> 0]
    ELSE [message |-> "unknown", count |-> 0]

Decode(buf) ==
    IF Utf8Valid(buf) THEN FromStr(buf) ELSE [message |-> "invalid_utf8", count |-> 0]

\* what the session manager writes for a NewPrivilegedClient{count}
EncodeNPC(k) == <<TagNPC, CountBase + k>>

Bytes(items) == [i \in 1..Len(items) |-> items[i].b]

\* a byte on the control socket, the descriptors attached to it, and, on the
\* first byte of a frame, the payload that frame was sent with
Item(b, fds) == [b |-> b, fds |-> fds, start |-> FALSE, payload |-> <<>>]

\* one frame on the wire: the 2-byte length, then the payload
Frame(payload) ==
    [i \in 1..(2 + Len(payload)) |->
        IF i = 1 THEN [Item(ToNeBytes(Len(payload))[1], <<>>) EXCEPT
                          !.start = TRUE, !.payload = payload]
        ELSE IF i = 2 THEN Item(ToNeBytes(Len(payload))[2], <<>>)
        ELSE Item(payload[i - 2], <<>>)]

\* the first k bytes of a frame whose writer went away
CutFrame(payload, k) ==
    [i \in 1..k |-> Item(Bytes(Frame(payload))[i], <<>>)]

\* ------------------------------------------------------------------ state
VARIABLES
    startup,        \* "init", "running", "failed", "panicked", "exited"
    sessionSockVar, \* COSMIC_SESSION_SOCK: "unset", "unparsable", "-1", "3"
    rawOpen,        \* the descriptor COSMIC_SESSION_SOCK names is open
    ctlOwned,       \* an owned UnixStream wraps that descriptor
    cloexec,        \* the descriptors set_cloexec returned Ok(()) for
    envWayland,     \* WAYLAND_DISPLAY: "unset", "rel", "abs"
    envXdg,         \* XDG_RUNTIME_DIR: "unset", "rel", "abs"
    envLen,         \* length of the SetEnv text get_env() leads to
    written,        \* what setup_socket wrote to the control socket
    ctlRegistered,  \* the control-channel source is in the event loop
    size,           \* StreamWrapper.size
    read_bytes,     \* StreamWrapper.read_bytes
    buffer,         \* StreamWrapper.buffer: its length and its bytes up to the
                    \* last one written, the bytes after them being 0
    sock,           \* bytes the session manager sent and the helper has not read
    sessClosed,     \* the session manager closed its end
    framesSent,     \* frames the session manager sent so far
    cur,            \* the frame whose header was read: the payload it was sent with
    lastBad,        \* the frame completed last did not decode
    nPairs,         \* client descriptors adopted so far
    reg,            \* reg[p][d]: direction d of pair p is in the event loop
    open,           \* open[p]: the handles of pair p that are open
    shut,           \* shut[p][s]: shutdown(Both) was called on socket s of pair p
    peerClosed,     \* peerClosed[p][s]: the peer of socket s closed its end
    inq,            \* inq[p][s]: messages queued for reading on socket s
    tunneled,       \* descriptors received by relay directions and still open
    msgsSent,       \* messages the relay peers sent so far
    handed,         \* descriptors the session manager handed off so far
    ev              \* what the last step did

startupVars ==
    <<startup, sessionSockVar, rawOpen, ctlOwned, cloexec, envWayland, envXdg, envLen, written>>

ctlVars == <<ctlRegistered, size, read_bytes, buffer>>

wireVars == <<sock, sessClosed, framesSent, cur, lastBad, handed>>

relayVars == <<nPairs, reg, open, shut>>

peerVars == <<peerClosed, inq, tunneled, msgsSent>>

vars == <<startupVars, ctlVars, wireVars, relayVars, peerVars, ev>>

NoEvent == [kind |-> "none"]

NoCur == [known |-> FALSE, payload |-> <<>>]

SockVars == {"unset", "unparsable", "-1", "3"}
EnvStates == {"unset", "rel", "abs"}
EnvLens == {HandshakeLen, U16 + HandshakeLen}

NoRelays ==
    /\ nPairs = 0
    /\ reg = [p \in Pairs |-> [d \in Dirs |-> FALSE]]
    /\ open = [p \in Pairs |-> {}]
    /\ shut = [p \in Pairs |-> [s \in Sides |-> FALSE]]
    /\ peerClosed = [p \in Pairs |-> [s \in Sides |-> FALSE]]
    /\ inq = [p \in Pairs |-> [s \in Sides |-> <<>>]]
    /\ tunneled = 0
    /\ msgsSent = 0
    /\ handed = 0

\* the process before main() calls setup_socket, in any environment
InitAny ==
    /\ startup = "init"
    /\ sessionSockVar \in SockVars
    /\ rawOpen \in BOOLEAN
    /\ rawOpen => sessionSockVar = "3"
    /\ ctlOwned = FALSE
    /\ cloexec = {}
    /\ envWayland \in EnvStates
    /\ envXdg \in EnvStates
    /\ envLen \in EnvLens
    /\ written = [len |-> <<>>, bytes |-> 0]
    /\ ctlRegistered = FALSE
    /\ size = 0
    /\ read_bytes = 0
    /\ buffer = [len |-> 0, head |-> <<>>]
    /\ sock = <<>>
    /\ sessClosed = FALSE
    /\ framesSent = 0
    /\ cur = NoCur
    /\ lastBad = FALSE
    /\ NoRelays
    /\ ev = NoEvent

\* ---------------------------------------------------------------- startup
\* the control descriptor's place among the descriptors the process adopts;
\* the client descriptor of pair p has place p
CtlSlot == 0

\* .parse::<RawFd>() of the variable's text
ParseFd(s) == IF s = "3" THEN 3 ELSE NoFd

\* set_cloexec: TRUE is Ok(()).  fcntl on a descriptor that is not open fails.
set_cloexec(fd, isOpen, getfdOk, setfdOk) ==
    /\ fd # NoFd
    /\ isOpen
    /\ getfdOk
    /\ setfdOk

RawLeftOpen(isOpen) == isOpen

\* rustix::io::close(fd) in the failure arm: the descriptor is open afterwards?
CloseRaw(isOpen) == FALSE

\* get_env(): .expect("No WAYLAND_DISPLAY")
get_env(wayland) == wayland # "unset"

\* the two write_all calls both wrote everything
HandshakeWritten(lenN, bytesN, total) == lenN = 2 /\ bytesN = total

InsertFirst(lenN, bytesN, total) == TRUE

\* setup_socket reaches insert_source
ReachesInsert(lenN, bytesN, total) == HandshakeWritten(lenN, bytesN, total)

SetupSocket ==
    /\ startup = "init"
    /\ UNCHANGED <<sessionSockVar, envWayland, envXdg, envLen>>
    /\ UNCHANGED <<size, read_bytes, buffer, wireVars, relayVars, peerVars>>
    /\ IF sessionSockVar \in {"unset", "unparsable"}
       THEN /\ startup' = "failed"
            /\ ev' = [kind |-> "setup", adopt |-> "none", result |-> "novar"]
            /\ UNCHANGED <<rawOpen, ctlOwned, cloexec, written, ctlRegistered>>
       ELSE \E getfdOk, setfdOk, insertOk \in BOOLEAN, lenN \in 0..2,
               bytesN \in {0, envLen - 1, envLen} :
            LET fd == ParseFd(sessionSockVar) IN
            IF ~set_cloexec(fd, rawOpen, getfdOk, setfdOk)
            THEN /\ rawOpen' = CloseRaw(rawOpen)
                 /\ UNCHANGED cloexec
                 /\ startup' = "failed"
                 /\ ev' = [kind |-> "setup", adopt |-> "err", result |-> "cloexec",
                           wasOpen |-> rawOpen]
                 /\ UNCHANGED <<ctlOwned, written, ctlRegistered>>
            ELSE IF ~get_env(envWayland)
            THEN \* the panic unwinds and drops session_socket
                 /\ rawOpen' = FALSE
                 /\ ctlOwned' = FALSE
                 /\ startup' = "panicked"
                 /\ ev' = [kind |-> "setup", adopt |-> "ok", result |-> "noenv"]
                 /\ UNCHANGED <<written, ctlRegistered>>
                 /\ cloexec' = cloexec \cup {CtlSlot}
            ELSE /\ (lenN < 2 => bytesN = 0)
                 /\ cloexec' = cloexec \cup {CtlSlot}
                 /\ written' = [len |-> Take(ToNeBytes(envLen), lenN), bytes |-> bytesN]
                 /\ IF ~ReachesInsert(lenN, bytesN, envLen)
                    THEN \* the ? returns and drops session_socket
                         /\ rawOpen' = FALSE
                         /\ ctlOwned' = FALSE
                         /\ ctlRegistered' = FALSE
                         /\ startup' = "failed"
                         /\ ev' = [kind |-> "setup", adopt |-> "ok", result |-> "write"]
                    ELSE IF insertOk
                    THEN /\ ctlRegistered' = TRUE
                         /\ ctlOwned' = TRUE
                         /\ startup' = "running"
                         /\ ev' = [kind |-> "setup", adopt |-> "ok", result |-> "ok"]
                         /\ UNCHANGED rawOpen
                    ELSE \* the InsertError carries the source back to main
                         /\ ctlRegistered' = FALSE
                         /\ ctlOwned' = TRUE
                         /\ startup' = "failed"
                         /\ ev' = [kind |-> "setup", adopt |-> "ok", result |-> "insert"]
                         /\ UNCHANGED rawOpen

\* main returns the error (or the panic ends the thread): the process is gone
ProcessExit ==
    /\ startup \in {"failed", "panicked"}
    /\ startup' = "exited"
    /\ rawOpen' = FALSE
    /\ ctlOwned' = FALSE
    /\ ctlRegistered' = FALSE
    /\ reg' = [p \in Pairs |-> [d \in Dirs |-> FALSE]]
    /\ open' = [p \in Pairs |-> {}]
    /\ tunneled' = 0
    /\ ev' = [kind |-> "exit"]
    /\ UNCHANGED <<sessionSockVar, cloexec, envWayland, envXdg, envLen, written>>
    /\ UNCHANGED <<size, read_bytes, buffer, wireVars, nPairs, shut>>
    /\ UNCHANGED <<peerClosed, inq, msgsSent>>

\* -------------------------------------------------------- session manager
Payloads ==
    {EncodeNPC(k) : k \in 0..MaxCount} \cup {<<TagEnv>>, <<TagUnk>>, <<BadByte>>, <<>>}

FdValues == {3, NoFd}

FdSeqs == UNION {[1..n -> FdValues] : n \in 0..MaxCount}

ValidFds(fds) == Cardinality({i \in 1..Len(fds) : fds[i] # NoFd})

\* the session manager writes a frame; a NewPrivilegedClient frame is followed
\* by one data byte that carries the descriptors
SessionWrites(payloads, fdseqs) ==
    /\ startup = "running"
    /\ ctlRegistered
    /\ ~sessClosed
    /\ framesSent < MaxFrames
    /\ \E payload \in payloads, fds \in fdseqs :
        LET isNPC == Decode(payload).message = "new_privileged_client"
            k == Decode(payload).count
        IN  /\ ~isNPC => fds = <<>>
            /\ isNPC => Len(fds) \in {k - 1, k, k + 1}
            /\ handed + ValidFds(fds) <= MaxPairs
            /\ sock' = sock \o Frame(payload) \o (IF isNPC THEN <<Item(0, fds)>> ELSE <<>>)
            /\ framesSent' = framesSent + 1
            /\ handed' = handed + ValidFds(fds)
            /\ ev' = NoEvent
    /\ UNCHANGED <<startupVars, ctlVars, sessClosed, cur, lastBad, relayVars, peerVars>>

\* any frame, with any descriptors on the byte that follows it
SessionSend == SessionWrites(Payloads, FdSeqs)

\* one handoff as the protocol describes it, then one frame that does not decode
SessionHandoff ==
    IF framesSent = 0
    THEN SessionWrites({EncodeNPC(MaxCount)}, {[i \in 1..MaxCount |-> 3]})
    ELSE framesSent = 1 /\ SessionWrites({<<BadByte>>}, {<<>>})

\* handoffs of any descriptors, sentinels among them
SessionHandoffAny ==
    SessionWrites({EncodeNPC(k) : k \in 1..MaxCount}, FdSeqs)

\* one handoff of one descriptor
SessionHandoffOne ==
    framesSent = 0 /\ SessionWrites({EncodeNPC(1)}, {<<3>>})

Truncated == {<<>>} \cup {CutFrame(EncodeNPC(1), k) : k \in 1..3}

\* the session manager goes away, possibly in the middle of writing a frame
SessionClose ==
    /\ startup = "running"
    /\ ctlRegistered
    /\ ~sessClosed
    /\ \E t \in Truncated :
        /\ sock' = sock \o t
        /\ sessClosed' = TRUE
        /\ ev' = NoEvent
    /\ UNCHANGED <<startupVars, ctlVars, framesSent, cur, lastBad, handed, relayVars, peerVars>>

\* -------------------------------------------------------- control channel
\* vec![0; size]
NewBuffer(n) == [len |-> n, head |-> <<>>]

\* the bytes of a buffer
Contents(buf) == buf.head \o Zeros(buf.len - Len(buf.head))

\* stream.stream.read(&mut stream.buffer): the bytes land at the start of buf
ReadInto(buf, data) ==
    [len |-> buf.len, head |-> data \o Drop(buf.head, Len(data))]

FrameCompleteAnyLength(rb, sz) == rb = sz

\* the completion test of the callback
FrameComplete(rb, sz) == rb # 0 /\ rb = sz

CountUnchecked(received, count) == TRUE

\* assert_eq!(received_count, count)
CountMatches(received, count) == received = count

DisplayPathJoined(wayland, xdg) ==
    IF wayland = "unset" THEN "none" ELSE "/run/user/1000/wayland-1"

\* the display socket's path, "none" when the loop body hits `continue`
DisplayPath(wayland, xdg) ==
    IF wayland = "unset" THEN "none"
    ELSE IF wayland = "abs" THEN "/tmp/wayland-9"
    ELSE IF xdg = "abs" THEN "/run/user/1000/wayland-1"
    ELSE "none"

Outcomes ==
    {"connect_err", "clone_client_err", "clone_server_err",
     "both", "s2c_only", "c2s_only", "neither"}

\* the directions whose insert_source succeeded; the second insert is made
\* whatever the first returned
InsertedDirs(o) ==
    IF o = "both" THEN Dirs
    ELSE IF o = "s2c_only" THEN {"s2c"}
    ELSE IF o = "c2s_only" THEN {"c2s"}
    ELSE {}

\* the body of the loop over the received descriptors
RelayDirs(fd, path, o) ==
    IF fd = NoFd THEN {}
    ELSE IF path = "none" THEN {}
    ELSE InsertedDirs(o)

HandlesOf(dirs) == UNION {{ReadHandle(d), WriteHandle(d)} : d \in dirs}

RECURSIVE SetupUntilFailure(_, _, _, _)
SetupUntilFailure(fds, outs, path, st) ==
    IF fds = <<>> THEN st
    ELSE LET dirs == RelayDirs(Head(fds), path, Head(outs))
             p == st.n + 1
         IN  IF dirs # Dirs THEN st
             ELSE SetupUntilFailure(Tail(fds), Tail(outs), path,
                    [n |-> p,
                     reg |-> [st.reg EXCEPT ![p] = [d \in Dirs |-> TRUE]],
                     open |-> [st.open EXCEPT ![p] = HandlesOf(Dirs)],
                     made |-> st.made \cup {p}])

RECURSIVE SetupRelays(_, _, _, _)
SetupRelays(fds, outs, path, st) ==
    IF fds = <<>> THEN st
    ELSE LET fd == Head(fds)
             dirs == RelayDirs(fd, path, Head(outs))
             p == st.n + 1
             st1 == IF fd = NoFd THEN st
                    ELSE [n |-> p,
                          reg |-> [st.reg EXCEPT ![p] = [d \in Dirs |-> d \in dirs]],
                          open |-> [st.open EXCEPT ![p] = HandlesOf(dirs)],
                          made |-> IF dirs # {} THEN st.made \cup {p} ELSE st.made]
         IN  SetupRelays(Tail(fds), Tail(outs), path, st1)

\* the source is dropped with its socket
CtlRemoved ==
    /\ ctlRegistered' = FALSE
    /\ ctlOwned' = FALSE
    /\ rawOpen' = FALSE

CtlFaults == {"none", "hdr", "body", "recv"}

\* what stream.read returns for a buffer of n bytes: a count, or -1 for Err
BodyReads(n, avail, closed, fault) ==
    IF fault = "body" THEN {-1}
    ELSE IF n = 0 THEN {0}
    ELSE IF avail > 0 THEN 1..Min(n, avail)
    ELSE IF closed THEN {0}
    ELSE {}

\* the readability callback of the control channel
ControlStep(fault, outcomes) ==
    /\ startup = "running"
    /\ ctlRegistered
    /\ sock # <<>> \/ sessClosed \/ fault # "none"
    /\ fault = "hdr" => size = 0
    /\ fault = "recv" =>
        /\ size # 0 \/ Len(sock) >= 2
        /\ LET sz == IF size = 0 THEN FromNeBytes(sock[1].b, sock[2].b) ELSE size
               need == sz - read_bytes
           IN  need >= 1 /\ Len(sock) >= need + (IF size = 0 THEN 2 ELSE 0)
    /\ UNCHANGED <<sessionSockVar, cloexec, envWayland, envXdg, envLen, written>>
    /\ UNCHANGED <<sessClosed, framesSent, handed, shut, peerVars>>
    /\ IF size = 0 /\ (fault = "hdr" \/ Len(sock) < 2)
       THEN \* read_exact fails: Remove
            /\ fault = "hdr" \/ sessClosed
            /\ CtlRemoved
            /\ sock' = IF fault = "hdr" THEN sock ELSE <<>>
            /\ ev' = [kind |-> "ctl", result |-> "hdr_err"]
            /\ UNCHANGED <<startup, size, read_bytes, buffer, cur, lastBad, nPairs, reg, open>>
       ELSE LET needHdr == size = 0
                size1 == IF needHdr THEN FromNeBytes(sock[1].b, sock[2].b) ELSE size
                buffer1 == IF needHdr THEN NewBuffer(size1) ELSE buffer
                sock1 == IF needHdr THEN Drop(sock, 2) ELSE sock
                cur1 == IF needHdr
                        THEN [known |-> sock[1].start, payload |-> sock[1].payload]
                        ELSE cur
            IN  \E c \in BodyReads(buffer1.len, Len(sock1), sessClosed, fault) :
                IF c < 0
                THEN \* the body read fails: Remove
                     /\ CtlRemoved
                     /\ size' = size1
                     /\ buffer' = buffer1
                     /\ sock' = sock1
                     /\ cur' = cur1
                     /\ ev' = [kind |-> "ctl", result |-> "body_err"]
                     /\ UNCHANGED <<startup, read_bytes, lastBad, nPairs, reg, open>>
                ELSE LET buffer2 == ReadInto(buffer1, Bytes(Take(sock1, c)))
                         rb2 == read_bytes + c
                         sock2 == Drop(sock1, c)
                         msg == IF FrameComplete(rb2, size1)
                                THEN Decode(Contents(buffer2))
                                ELSE [message |-> "none", count |-> 0]
                         base == IF ~FrameComplete(rb2, size1) THEN NoEvent ELSE
                                 [kind |-> "ctl", result |-> "dispatch",
                                  buffer |-> Contents(buffer2), known |-> cur1.known,
                                  payload |-> cur1.payload, msg |-> msg.message,
                                  count |-> msg.count, prior |-> read_bytes,
                                  afterBad |-> lastBad, recv |-> "na",
                                  received |-> 0, created |-> {},
                                  first |-> nPairs, fds |-> <<>>, outs |-> <<>>]
                     IN
                     IF ~FrameComplete(rb2, size1)
                     THEN /\ size' = size1
                          /\ read_bytes' = rb2
                          /\ buffer' = buffer2
                          /\ sock' = sock2
                          /\ cur' = IF size1 = 0 THEN NoCur ELSE cur1
                          /\ ev' = [kind |-> "ctl", result |-> "continue",
                                    eof |-> (c = 0 /\ size1 > 0)]
                          /\ UNCHANGED <<startup, rawOpen, ctlOwned, ctlRegistered>>
                          /\ UNCHANGED <<lastBad, nPairs, reg, open>>
                     ELSE /\ size' = 0
                          /\ read_bytes' = 0
                          /\ buffer' = buffer2
                          /\ cur' = NoCur
                          /\ lastBad' = (msg.message \in {"invalid_utf8", "unknown"})
                          /\ UNCHANGED <<rawOpen, ctlOwned, ctlRegistered>>
                          /\ IF msg.message # "new_privileged_client"
                             THEN /\ sock' = sock2
                                  /\ ev' = base
                                  /\ UNCHANGED <<startup, nPairs, reg, open>>
                             ELSE IF fault = "recv"
                             THEN \* recv_with_fd fails: warn, Continue
                                  /\ sock' = sock2
                                  /\ ev' = [base EXCEPT !.recv = "err"]
                                  /\ UNCHANGED <<startup, nPairs, reg, open>>
                             ELSE /\ sock2 # <<>> \/ sessClosed
                                  /\ LET got == IF sock2 = <<>> THEN <<>> ELSE Head(sock2).fds
                                         received == Min(msg.count, Len(got))
                                         fdsv == Take(got, received)
                                         sock3 == IF sock2 = <<>> THEN sock2 ELSE Tail(sock2)
                                     IN  /\ sock' = sock3
                                         /\ IF ~CountMatches(received, msg.count)
                                            THEN /\ startup' = "panicked"
                                                 /\ ev' = [base EXCEPT !.result = "panic",
                                                                       !.recv = "ok",
                                                                       !.received = received]
                                                 /\ UNCHANGED <<nPairs, reg, open>>
                                            ELSE \E outs \in [1..received -> outcomes] :
                                                 LET st == SetupRelays(fdsv, outs,
                                                             DisplayPath(envWayland, envXdg),
                                                             [n |-> nPairs, reg |-> reg,
                                                              open |-> open, made |-> {}])
                                                 IN  /\ nPairs' = st.n
                                                     /\ reg' = st.reg
                                                     /\ open' = st.open
                                                     /\ ev' = [base EXCEPT !.recv = "ok",
                                                                           !.received = received,
                                                                           !.created = st.made,
                                                                           !.fds = fdsv,
                                                                           !.outs = outs]
                                                     /\ UNCHANGED startup

ControlCallback == \E fault \in CtlFaults : ControlStep(fault, Outcomes)

\* the callback with every failure of its reads, the display socket accepting
ControlCallbackReads == \E fault \in CtlFaults : ControlStep(fault, {"both"})

\* the callback when the reads do not fail and the display socket accepts
ControlCallbackOk == ControlStep("none", {"both"})

\* ------------------------------------------------------------ relay pairs
RecvBuf == 1024     \* let mut buf = [0u8; 1024]
RecvFdSlots == 4    \* let mut fds = [0i32; 4]

Msgs ==
    {[bytes |-> [i \in 1..n |-> i], fds |-> [i \in 1..k |-> 100 + i]] :
        n \in 0..MaxMsgLen, k \in 0..MaxFds} \ {[bytes |-> <<>>, fds |-> <<>>]}

\* a peer of pair p (the client, or the compositor) writes to its socket
PeerSend ==
    /\ startup = "running"
    /\ msgsSent < MaxMsgs
    /\ \E p \in 1..nPairs, d \in Dirs, m \in Msgs :
        /\ reg[p][d]
        /\ ~peerClosed[p][ReadSide(d)]
        /\ inq' = [inq EXCEPT ![p][ReadSide(d)] = Append(@, m)]
        /\ msgsSent' = msgsSent + 1
        /\ ev' = NoEvent
    /\ UNCHANGED <<startupVars, ctlVars, wireVars, relayVars, peerClosed, tunneled>>

\* a peer of pair p closes its end
PeerClose ==
    /\ startup = "running"
    /\ \E p \in 1..nPairs, s \in Sides :
        /\ open[p] # {}
        /\ ~peerClosed[p][s]
        /\ peerClosed' = [peerClosed EXCEPT ![p][s] = TRUE]
        /\ ev' = NoEvent
    /\ UNCHANGED <<startupVars, ctlVars, wireVars, relayVars, inq, tunneled, msgsSent>>

\* buf = &buf[n..]
AdvanceBuf(buf, n) == Drop(buf, n)

FdsKept(fds) == fds

\* fds = &fds[0..0]
FdsAfterWrite(fds) == <<>>

\* what send_with_fd can return for n bytes
SendOutcomes(n, intr, broken) ==
    {[k |-> "err", n |-> 0]}
    \cup (IF intr > 0 THEN {[k |-> "intr", n |-> 0]} ELSE {})
    \cup (IF broken THEN {} ELSE {[k |-> "ok", n |-> m] : m \in 0..n})

\* the while loop of a direction: every run of it, as the list of its write
\* attempts and the PostAction it ends in
RECURSIVE ForwardLoop(_, _, _, _)
ForwardLoop(buf, fds, intr, broken) ==
    IF buf = <<>> THEN {[log |-> <<>>, res |-> "continue"]}
    ELSE UNION {
        LET a == [buf |-> buf, fds |-> fds, out |-> o] IN
        IF o.k = "intr"
        THEN {[log |-> <<a>> \o r.log, res |-> r.res] :
                r \in ForwardLoop(buf, fds, intr - 1, broken)}
        ELSE IF o.k = "err" \/ o.n = 0
        THEN {[log |-> <<a>>, res |-> "remove"]}
        ELSE {[log |-> <<a>> \o r.log, res |-> r.res] :
                r \in ForwardLoop(AdvanceBuf(buf, o.n), FdsAfterWrite(fds), intr, broken)}
        : o \in SendOutcomes(Len(buf), intr, broken)}

RemovePair(r, p, d) == [r EXCEPT ![p] = [e \in Dirs |-> FALSE]]

RemoveEverySource(r, p, d) == [q \in Pairs |-> [e \in Dirs |-> FALSE]]

\* PostAction::Remove of direction d of pair p: the source leaves the loop
RemoveSource(r, p, d) == [r EXCEPT ![p][d] = FALSE]

\* ... and is dropped with its stream and the clone its callback captured
DropHandles(o, p, d) == [o EXCEPT ![p] = @ \ {ReadHandle(d), WriteHandle(d)}]

DisconnectOwnSide(sh, p, d) == [sh EXCEPT ![p][ReadSide(d)] = TRUE]

\* the two shutdown(Both) calls of the disconnect arm
Disconnect(sh, p, d) ==
    [sh EXCEPT ![p] = [s \in Sides |-> s \in {ReadSide(d), WriteSide(d)} \/ @[s]]]

RelayFaults == {"none", "intr", "err"}

\* the readability callback of direction d of pair p
RelayStep(p, d, fault) ==
    /\ startup = "running"
    /\ p <= nPairs
    /\ reg[p][d]
    /\ \/ inq[p][ReadSide(d)] # <<>>
       \/ peerClosed[p][ReadSide(d)]
       \/ shut[p][ReadSide(d)]
       \/ fault # "none"
    /\ UNCHANGED <<startupVars, ctlVars, wireVars, nPairs, peerClosed, msgsSent>>
    /\ LET both == reg[p]["s2c"] /\ reg[p]["c2s"] IN
       IF fault = "intr"
       THEN /\ ev' = [kind |-> "relay", pair |-> p, dir |-> d, recv |-> "intr"]
            /\ UNCHANGED <<reg, open, shut, inq, tunneled>>
       ELSE IF fault = "err" \/ inq[p][ReadSide(d)] = <<>>
       THEN /\ shut' = Disconnect(shut, p, d)
            /\ reg' = RemoveSource(reg, p, d)
            /\ open' = DropHandles(open, p, d)
            /\ ev' = [kind |-> "relay", pair |-> p, dir |-> d,
                      recv |-> IF fault = "err" THEN "err" ELSE "eof", both |-> both]
            /\ UNCHANGED <<inq, tunneled>>
       ELSE LET m == Head(inq[p][ReadSide(d)])
                B == Take(m.bytes, Min(RecvBuf, Len(m.bytes)))
                F == Take(m.fds, Min(RecvFdSlots, Len(m.fds)))
                broken == shut[p][WriteSide(d)] \/ peerClosed[p][WriteSide(d)]
            IN  /\ inq' = [inq EXCEPT ![p][ReadSide(d)] = Tail(@)]
                /\ tunneled' = tunneled + Len(F)
                /\ UNCHANGED shut
                /\ \E r \in ForwardLoop(B, F, MaxIntr, broken) :
                    /\ ev' = [kind |-> "relay", pair |-> p, dir |-> d, recv |-> "data",
                              B |-> B, F |-> F, log |-> r.log, res |-> r.res, both |-> both]
                    /\ IF r.res = "remove"
                       THEN /\ reg' = RemoveSource(reg, p, d)
                            /\ open' = DropHandles(open, p, d)
                       ELSE UNCHANGED <<reg, open>>

RelayCallback == \E p \in Pairs, d \in Dirs, fault \in RelayFaults : RelayStep(p, d, fault)

\* ---------------------------------------------------------- specifications
\* the process in an environment in which relays can be set up
Init ==
    /\ InitAny
    /\ envWayland \in {"unset", "rel"}
    /\ envXdg = "abs"
    /\ envLen = HandshakeLen

\* the control channel, the display socket accepting; the relay peers stay silent
Next ==
    \/ SetupSocket
    \/ ProcessExit
    \/ SessionSend
    \/ SessionClose
    \/ ControlCallbackReads

Spec == Init /\ [][Next]_vars

\* the relay pairs, set up by handoffs as the protocol describes them
NextRelay ==
    \/ SetupSocket
    \/ ProcessExit
    \/ SessionHandoff
    \/ ControlCallbackOk
    \/ RelayCallback
    \/ PeerSend
    \/ PeerClose

RelaySpec == Init /\ [][NextRelay]_vars

\* startup alone, in every environment
NextStartup ==
    \/ SetupSocket
    \/ ProcessExit

StartupSpec == InitAny /\ [][NextStartup]_vars

\* handoffs in every environment, with every outcome of the relay setup
InitHandoff ==
    /\ InitAny
    /\ envLen = HandshakeLen

NextHandoff ==
    \/ SetupSocket
    \/ ProcessExit
    \/ SessionHandoffAny
    \/ ControlCallback

HandoffSpec == InitHandoff /\ [][NextHandoff]_vars

\* one relay pair and the end of the control channel
NextLive ==
    \/ SetupSocket
    \/ ProcessExit
    \/ SessionHandoffOne
    \/ SessionClose
    \/ ControlCallbackOk
    \/ RelayCallback
    \/ PeerSend
    \/ PeerClose

\* level-triggered readiness: a source that stays readable is called again,
\* and a callback that is called is not interrupted or failed for ever
Fairness ==
    /\ \A p \in Pairs, d \in Dirs : WF_vars(RelayStep(p, d, "none"))
    /\ WF_vars(ControlCallbackOk)
    /\ WF_vars(ProcessExit)

LiveSpec == Init /\ [][NextLive]_vars /\ Fairness

\* ------------------------------------------------------------------ claims
Dispatched == ev.kind = "ctl" /\ ev.result \in {"dispatch", "panic"}

WellFormed(payload) == Decode(payload).message \in {"new_privileged_client", "set_env"}

\* C1: the buffer handed to decode for a frame the session manager sent is that
\* frame's payload, however its bytes were split over the body reads
PartialReadIndependence ==
    (Dispatched /\ ev.known) => ev.buffer = ev.payload

\* C2: after a completed frame that does not decode the source stays
\* registered, the frame state is awaiting-header and no relay was created; and
\* the frame that follows is read from its own header and its payload is what
\* is dispatched
Recoverability ==
    /\ (Dispatched /\ ev.msg \in {"invalid_utf8", "unknown"}) =>
            (ctlRegistered /\ size = 0 /\ read_bytes = 0 /\ ev.created = {})
    /\ (Dispatched /\ ev.afterBad) =>
            (ev.known /\ (WellFormed(ev.payload) => ev.buffer = ev.payload))

\* C3: a handoff whose receive call succeeds with a number of descriptors other
\* than count ends in the assertion failure and registers no relay source
DescriptorCountContract ==
    /\ (Dispatched /\ ev.recv = "ok" /\ ev.received # ev.count) =>
            (ev.result = "panic" /\ startup = "panicked" /\ ev.created = {})
    /\ (Dispatched /\ ev.created # {}) => ev.received = ev.count

CountMismatchSeen ==
    Dispatched /\ ev.recv = "ok" /\ ev.received < ev.count /\ startup = "panicked"

PairGone(p) == (\A d \in Dirs : ~reg[p][d]) /\ open[p] = {}

ReadEof(p) == ev.kind = "relay" /\ ev.recv = "eof" /\ ev.pair = p /\ ev.both

\* C4: once a direction of a pair with both directions registered reads zero
\* bytes and zero descriptors, both sources are eventually out of the loop and
\* all four handles of the pair are closed
TeardownCompleteness == \A p \in Pairs : ReadEof(p) ~> PairGone(p)

DisconnectSeen == \E p \in Pairs : ReadEof(p) /\ ~PairGone(p)

RECURSIVE SumAccepted(_, _)
SumAccepted(log, i) ==
    IF i = 0 THEN 0
    ELSE SumAccepted(log, i - 1) + (IF log[i].out.k = "ok" THEN log[i].out.n ELSE 0)

Succeeded(log, i) == \E j \in 1..i : log[j].out.k = "ok" /\ log[j].out.n > 0

RECURSIVE DeliveredBytes(_)
DeliveredBytes(log) ==
    IF log = <<>> THEN <<>>
    ELSE (IF Head(log).out.k = "ok" THEN Take(Head(log).buf, Head(log).out.n) ELSE <<>>)
         \o DeliveredBytes(Tail(log))

RECURSIVE DeliveredFds(_)
DeliveredFds(log) ==
    IF log = <<>> THEN <<>>
    ELSE (IF Head(log).out.k = "ok" /\ Head(log).out.n > 0 THEN Head(log).fds ELSE <<>>)
         \o DeliveredFds(Tail(log))

ForwardPass == ev.kind = "relay" /\ ev.recv = "data" /\ ev.B # <<>>

\* C5: in one forward pass of a non-empty slice B with descriptors F every write
\* attempt covers the tail of B not yet accepted, an interrupted write consumes
\* nothing, F goes with every attempt up to the first successful write and with
\* none after it, and a pass that completes has delivered B in order and F once
WriteSegmentation ==
    ForwardPass =>
        /\ Len(ev.log) >= 1
        /\ \A i \in 1..Len(ev.log) :
            /\ ev.log[i].buf = Drop(ev.B, SumAccepted(ev.log, i - 1))
            /\ ev.log[i].fds = IF Succeeded(ev.log, i - 1) THEN <<>> ELSE ev.F
        /\ ev.res = "continue" =>
            /\ DeliveredBytes(ev.log) = ev.B
            /\ DeliveredFds(ev.log) = ev.F

SegmentedForward ==
    /\ ForwardPass
    /\ ev.res = "continue"
    /\ ev.F # <<>>
    /\ Len(ev.log) = 3
    /\ ev.log[1].out.k = "intr"
    /\ ev.log[2].out.k = "ok" /\ ev.log[2].out.n = 1

\* C6: once adoption of the control descriptor was attempted, an owned socket
\* wraps it or it is closed; a failed adoption leaves it closed and unowned
DescriptorSafety ==
    /\ (startup # "init" /\ sessionSockVar \in {"-1", "3"}) => (ctlOwned \/ ~rawOpen)
    /\ (ev.kind = "setup" /\ ev.adopt = "err") =>
            (~rawOpen /\ ~ctlOwned /\ startup = "failed")
    /\ (ev.kind = "setup" /\ ev.adopt = "ok" /\ ev.result \in {"ok", "insert"}) => ctlOwned

AdoptionFailedClosed ==
    ev.kind = "setup" /\ ev.adopt = "err" /\ ev.wasOpen /\ ~rawOpen

TerminalRelayStep(p) ==
    /\ ev'.kind = "relay"
    /\ ev'.pair = p
    /\ ev'.recv \in {"eof", "err"} \/ (ev'.recv = "data" /\ ev'.res = "remove")

MalformedFrameStep ==
    ev'.kind = "ctl" /\ ev'.result = "dispatch" /\ ev'.msg \in {"invalid_utf8", "unknown"}

\* C7: a disconnect, terminal read error or terminal write error of a direction
\* of pair p leaves the control channel and every other pair as they were, and a
\* control frame that does not decode leaves every relay pair as it was
ErrorContainment ==
    [][/\ \A p \in Pairs : TerminalRelayStep(p) =>
            /\ UNCHANGED <<ctlRegistered, ctlOwned, size, read_bytes, buffer>>
            /\ \A q \in Pairs \ {p} :
                reg'[q] = reg[q] /\ open'[q] = open[q] /\ shut'[q] = shut[q]
       /\ MalformedFrameStep => UNCHANGED <<nPairs, reg, open, shut>>]_vars

ContainedTeardown ==
    /\ ev.kind = "relay"
    /\ ev.recv \in {"eof", "err"}
    /\ ev.pair = 1
    /\ ~reg[1][ev.dir]
    /\ reg[2]["s2c"] /\ reg[2]["c2s"]
    /\ ctlRegistered

\* C8: the bytes counted for the current frame never exceed its declared size,
\* and the frame state goes back to awaiting-header only in a step that
\* dispatches the completed buffer
FrameStateInvariant ==
    /\ [](read_bytes <= size)
    /\ [][(size' = 0 /\ read_bytes' = 0 /\ ~(size = 0 /\ read_bytes = 0)) =>
            (ev'.kind = "ctl" /\ ev'.result \in {"dispatch", "panic"})]_vars

HandshakeComplete == Len(written.len) = 2 /\ written.bytes = envLen

\* C9: the control-channel source is registered only after the length and the
\* whole payload of the SetEnv frame were written; a startup that fails
\* registers no source and reads no frame; nothing is written afterwards
HandshakeOrdering ==
    /\ [](ctlRegistered => HandshakeComplete)
    /\ [](startup \in {"failed", "panicked"} /\ ev.kind = "setup" => ~ctlRegistered)
    /\ [](~HandshakeComplete => ev.kind # "ctl")
    /\ [][startup # "init" => written' = written]_vars

HandshakeThenFrames == ctlRegistered /\ HandshakeComplete /\ ev.kind = "ctl"

\* C10: once the session manager has closed the control socket the
\* control-channel source is eventually removed from the event loop
ControlEndOfLife == sessClosed ~> ~ctlRegistered

\* C11: the 2-byte length at the start of the SetEnv frame is the number of
\* payload bytes written after it
HandshakeLengthPrefix ==
    HandshakeComplete => FromNeBytes(written.len[1], written.len[2]) = written.bytes

\* C12: whenever the receive call of a relay direction reports bytes or
\* descriptors and the callback returns Continue, all the bytes and all the
\* descriptors were sent to the partner write handle
ForwardsEverything ==
    (ev.kind = "relay" /\ ev.recv = "data" /\ ev.res = "continue") =>
        /\ DeliveredBytes(ev.log) = ev.B
        /\ DeliveredFds(ev.log) = ev.F

Handoff == ev.kind = "ctl" /\ ev.result = "dispatch" /\ ev.recv = "ok"

\* the pair slot the i-th descriptor of the handoff was adopted into
PairAt(i) == ev.first + Cardinality({j \in 1..i : ev.fds[j] # NoFd})

PathMissing == envWayland = "unset" \/ (envWayland = "rel" /\ envXdg # "abs")

Abandoned(i) ==
    /\ ev.fds[i] # NoFd
    /\ PathMissing \/ ev.outs[i] \in {"connect_err", "clone_client_err", "clone_server_err"}

\* C13: a delivered client descriptor whose display path cannot be resolved,
\* whose connect fails or whose endpoints cannot be duplicated has every
\* handle closed and no forwarding source, and the control channel stays
\* registered
AbandonedAttempt ==
    Handoff => \A i \in 1..Len(ev.fds) :
        Abandoned(i) =>
            /\ open[PairAt(i)] = {}
            /\ \A d \in Dirs : ~reg[PairAt(i)][d]
            /\ ctlRegistered
            /\ startup = "running"

AbandonedSeen ==
    /\ Handoff
    /\ envWayland = "rel" /\ envXdg = "rel"
    /\ \E i \in 1..Len(ev.fds) :
        ev.fds[i] # NoFd /\ ev.outs[i] = "both" /\ open[PairAt(i)] = {}

RecvFailed == ev.kind = "ctl" /\ ev.result = "dispatch" /\ ev.recv = "err"

\* C14: when the descriptor-receive call of a NewPrivilegedClient frame fails,
\* no relay source is registered for the message, the control-channel source
\* stays registered, the frame state is awaiting-header, and what is left on
\* the socket starts with the header of the next frame
RecvFailureRecovery ==
    RecvFailed =>
        /\ ev.created = {}
        /\ nPairs = ev.first
        /\ ctlRegistered
        /\ size = 0 /\ read_bytes = 0
        /\ (ev.known /\ ev.buffer = ev.payload /\ ~sessClosed) =>
                (sock = <<>> \/ sock[1].start)

WriteFailed(p, d) ==
    /\ ev'.kind = "relay"
    /\ ev'.pair = p /\ ev'.dir = d
    /\ ev'.recv = "data" /\ ev'.res = "remove"

OwnTerminalStep(p, d) ==
    /\ ev'.kind = "relay"
    /\ ev'.pair = p /\ ev'.dir = d
    /\ ev'.recv \in {"eof", "err"} \/ (ev'.recv = "data" /\ ev'.res = "remove")

\* C15: a write that reports zero bytes or a non-interrupted error removes the
\* source of its own direction only and shuts down no endpoint; a direction's
\* source leaves the event loop only in a terminal step of that direction
\* itself (or when the process ends)
BrokenPipeAsymmetry ==
    [][\A p \in Pairs, d \in Dirs :
        /\ WriteFailed(p, d) =>
            /\ reg' = [reg EXCEPT ![p][d] = FALSE]
            /\ shut' = shut
            /\ open' = [open EXCEPT ![p] = @ \ {ReadHandle(d), WriteHandle(d)}]
        /\ (reg[p][d] /\ ~reg'[p][d]) =>
            (ev'.kind = "exit" \/ OwnTerminalStep(p, d))]_vars

HalfTornDown ==
    /\ ev.kind = "relay" /\ ev.recv = "data" /\ ev.res = "remove"
    /\ ~reg[ev.pair][ev.dir]
    /\ reg[ev.pair][Other(ev.dir)]
    /\ \A s \in Sides : ~shut[ev.pair][s]
    /\ open[ev.pair] = {ReadHandle(Other(ev.dir)), WriteHandle(Other(ev.dir))}

\* C16: every descriptor wrapped into an owned socket, the control descriptor
\* and each client descriptor of a handoff, has passed set_cloexec before
CloexecBeforeAdoption ==
    /\ ctlOwned => CtlSlot \in cloexec
    /\ \A p \in Pairs :
        open[p] \cap {"client_stream", "client_stream_clone"} # {} => p \in cloexec

\* C17: after a handoff every client descriptor it delivered has both of its
\* forwarding directions registered or neither
RelayPairAtomicity ==
    Handoff => \A i \in 1..Len(ev.fds) :
        ev.fds[i] # NoFd => (reg[PairAt(i)]["s2c"] <=> reg[PairAt(i)]["c2s"])

\* C18: a descriptor a relay direction received from its read endpoint is not
\* open in the helper any more once the callback has returned
NoTunneledLeak == tunneled = 0

Succeeds(i) ==
    ev.fds[i] # NoFd /\ ~PathMissing /\ ev.outs[i] = "both"

EachDescriptorOwnPair ==
    Handoff =>
        /\ \A i \in 1..Len(ev.fds) :
            Succeeds(i) =>
                /\ PairAt(i) \in ev.created
                /\ \A d \in Dirs : reg[PairAt(i)][d]
                /\ open[PairAt(i)] = HandlesOf(Dirs)
                /\ \A j \in 1..Len(ev.fds) :
                    (j # i /\ ev.fds[j] # NoFd) => PairAt(j) # PairAt(i)
        /\ ev.created \subseteq {PairAt(i) : i \in {j \in 1..Len(ev.fds) : ev.fds[j] # NoFd}}
        /\ \A p \in ev.created : p > ev.first
        /\ Cardinality(ev.created) <= ev.count
        /\ nPairs - ev.first <= ev.count

\* C19: within one handoff of K descriptors a sentinel or a failed relay
\* attempt neither stops the descriptors after it nor touches the relays set
\* up before it: every descriptor whose resolution, connect, duplication and
\* registration all succeed has its own relay pair with both directions
\* registered and its four handles open, pairs set up by earlier handoffs are
\* as they were, and at most K pairs are created
DescriptorIndependence ==
    /\ []EachDescriptorOwnPair
    /\ [][(ev'.kind = "ctl" /\ ev'.result = "dispatch") =>
            \A p \in 1..nPairs : reg'[p] = reg[p] /\ open'[p] = open[p]]_vars

IndependentSeen ==
    /\ Handoff
    /\ Len(ev.fds) = 2
    /\ ev.fds[1] # NoFd /\ ev.outs[1] = "connect_err"
    /\ Succeeds(2)
    /\ reg[PairAt(2)]["s2c"] /\ reg[PairAt(2)]["c2s"]

ZeroHeaderRead ==
    /\ ev'.kind = "ctl"
    /\ ev'.result \notin {"hdr_err", "body_err"}
    /\ size = 0
    /\ Len(sock) >= 2
    /\ FromNeBytes(sock[1].b, sock[2].b) = 0

\* C20: a callback that reads a header declaring payload length 0 (and whose
\* reads do not fail) dispatches nothing and creates no relay, leaves the
\* control-channel source registered and the frame state at awaiting-header,
\* and takes exactly the 2 header bytes from the socket
ZeroLengthFrame ==
    [][ZeroHeaderRead =>
        /\ ev'.result = "continue"
        /\ sock' = Drop(sock, 2)
        /\ size' = 0 /\ read_bytes' = 0
        /\ ctlRegistered' /\ startup' = "running"
        /\ UNCHANGED <<nPairs, reg, open>>]_vars

ZeroFrameSkipped ==
    /\ ev.kind = "ctl" /\ ev.result = "continue"
    /\ size = 0 /\ read_bytes = 0
    /\ ctlRegistered
    /\ sock # <<>> /\ sock[1].start

====
